---- MODULE Spec2Model ----
(***************************************************************************)
(* ProductivityX backend: the task routes (routes/tasks.js), the snapshot  *)
(* routes (routes/productivity.js) and the two Mongoose schemas, modelled  *)
(* as a state machine over the Task and Productivity collections.          *)
(*                                                                         *)
(* Every `await` on the store is one atomic step; the steps of different   *)
(* requests interleave freely (Node serves requests concurrently, each     *)
(* handler suspends at its awaits).  Dates are kept at day granularity:    *)
(* moment(date).startOf('day') .. endOf('day') selects exactly one day.    *)
(* Mongoose's createdAt/updatedAt timestamps and the text fields (title,   *)
(* description, notes, priority, scheduledTime) are left out: no handler   *)
(* modelled here reads them.                                               *)
(***************************************************************************)
EXTENDS Integers, Sequences, FiniteSets, TLC

VARIABLES
    tasks,      \* the Task collection, in insertion order
    snapshots,  \* the Productivity collection, in insertion order
    inflight,   \* the requests that are suspended at an await
    nreq,       \* number of requests received so far (also the logical clock)
    lastRun,    \* history: <<user, day, runs>> when the last store write ended an undisturbed recomputation, else <<>>
    calcTasks,  \* input of the stand-alone metrics computation
    calcOut,    \* <<>>, or <<the day computed, the metrics computed>>
    productivity, \* the snapshots a range query returned, in ascending date order
    response    \* <<>>, or <<the route, the body it answered for `productivity`>>

mainVars == <<tasks, snapshots, inflight, nreq, lastRun>>
calcVars == <<calcTasks, calcOut>>
aggVars == <<productivity, response>>
vars == <<tasks, snapshots, inflight, nreq, lastRun, calcTasks, calcOut,
          productivity, response>>

----------------------------------------------------------------------------
(* Bounds *)

MaxReqs == 3    \* requests received in one behaviour
MaxConc == 2    \* requests in flight at the same time
MaxLen == 8     \* tasks handed to the stand-alone metrics computation
MaxDays == 4    \* snapshots in the range of an aggregation

----------------------------------------------------------------------------
(* Schema constants *)

Categories == {"work", "personal", "health", "learning", "other"}
Statuses == {"pending", "in-progress", "completed", "cancelled"}
DefaultCategory == "other"
DefaultStatus == "pending"
DefaultEstimatedDuration == 60
DefaultActualDuration == 0
DefaultTaskScore == 0
ScoreMin == 0
ScoreMax == 100

Users == {"u1", "u2"}
Days == {1, 2}
NoDate == 0     \* completedAt of a task that has none

----------------------------------------------------------------------------
(* updateProductivityMetrics: the computation (tasks.js 174-196) *)

RECURSIVE SumActual(_)
\* tasks.reduce((sum, t) => sum + (t.actualDuration || 0), 0)
SumActual(ts) ==
    IF ts = <<>> THEN 0
    ELSE SumActual(SubSeq(ts, 1, Len(ts) - 1)) + ts[Len(ts)].actualDuration

IsCompleted(t) == t.status = "completed"

ZeroBreakdown == [c \in Categories |-> 0]

RECURSIVE BreakdownAnyStatus(_)
\* BreakdownOf without the status test: every task's minutes are attributed
BreakdownAnyStatus(ts) ==
    IF ts = <<>> THEN ZeroBreakdown
    ELSE LET acc == BreakdownAnyStatus(SubSeq(ts, 1, Len(ts) - 1))
             t == ts[Len(ts)]
         IN  [acc EXCEPT ![t.category] = @ + t.actualDuration]

RECURSIVE BreakdownOf(_)
\* tasks.forEach(task => { if (completed && task.category) breakdown[task.category] += actualDuration })
BreakdownOf(ts) ==
    IF ts = <<>> THEN ZeroBreakdown
    ELSE LET acc == BreakdownOf(SubSeq(ts, 1, Len(ts) - 1))
             t == ts[Len(ts)]
         IN  IF IsCompleted(t) /\ t.category # ""
             THEN [acc EXCEPT ![t.category] = @ + t.actualDuration]
             ELSE acc

\* Math.round(n / d) for n >= 0, d > 0: floor(n/d + 1/2)
MathRound(n, d) == (2 * n + d) \div (2 * d)

\* DayScore with Math.floor in place of Math.round
DayScoreFloor(tasksCompleted, tasksPlanned) ==
    IF tasksPlanned > 0 THEN (tasksCompleted * 100) \div tasksPlanned ELSE 0

DayScore(tasksCompleted, tasksPlanned) ==
    IF tasksPlanned > 0 THEN MathRound(tasksCompleted * 100, tasksPlanned) ELSE 0

ComputeMetrics(ts) ==
    LET tasksPlanned == Len(ts)
        tasksCompleted == Len(SelectSeq(ts, IsCompleted))
    IN  [ tasksPlanned |-> tasksPlanned,
          tasksCompleted |-> tasksCompleted,
          totalWorkTime |-> SumActual(SelectSeq(ts, IsCompleted)),
          productivityScore |-> DayScore(tasksCompleted, tasksPlanned),
          categoryBreakdown |-> BreakdownOf(ts) ]

----------------------------------------------------------------------------
(* The Task documents *)

\* a request body is a record holding the keys the client sent
Field(body, key, default) == IF key \in DOMAIN body THEN body[key] ELSE default

\* new Task({ ...req.body, userId: req.user._id }) with the schema defaults
NewTask(id, user, body) ==
    [ id |-> id,
      userId |-> user,
      category |-> Field(body, "category", DefaultCategory),
      status |-> Field(body, "status", DefaultStatus),
      scheduledDate |-> body.scheduledDate,
      estimatedDuration |-> Field(body, "estimatedDuration", DefaultEstimatedDuration),
      actualDuration |-> Field(body, "actualDuration", DefaultActualDuration),
      completedAt |-> Field(body, "completedAt", NoDate),
      productivityScore |-> Field(body, "productivityScore", DefaultTaskScore) ]

\* TasksOn without the owner in its filter
TasksOnAnyUser(coll, user, day) ==
    LET Hit(t) == t.scheduledDate = day
    IN  SelectSeq(coll, Hit)

\* Task.find({ userId, scheduledDate: { $gte: dateStart, $lte: dateEnd } })
TasksOn(coll, user, day) ==
    LET Hit(t) == t.userId = user /\ t.scheduledDate = day
    IN  SelectSeq(coll, Hit)

\* Object.keys(req.body).forEach(key => { doc[key] = req.body[key] })
AssignBody(doc, body) ==
    [k \in DOMAIN doc |-> IF k \in DOMAIN body THEN body[k] ELSE doc[k]]

\* doc.save() of a loaded document: only the paths whose value was changed
\* since loading are written ($set of the modified paths)
WriteModified(stored, loaded, final) ==
    [k \in DOMAIN stored |-> IF final[k] # loaded[k] THEN final[k] ELSE stored[k]]

IndexOfId(coll, id) ==
    IF \E i \in 1..Len(coll) : coll[i].id = id
    THEN CHOOSE i \in 1..Len(coll) : coll[i].id = id
    ELSE 0

RemoveAt(coll, i) == SubSeq(coll, 1, i - 1) \o SubSeq(coll, i + 1, Len(coll))

Min(a, b) == IF a < b THEN a ELSE b
Max(a, b) == IF a > b THEN a ELSE b

\* Math.min(100, Math.max(0, (estimatedDuration / actualDuration) * 100)); the
\* durations of the model make the quotient an integer
TimeEfficiencyScore(estimatedDuration, actualDuration) ==
    Min(100, Max(0, (estimatedDuration * 100) \div actualDuration))

\* PUT /api/tasks/:id between findOne and save (tasks.js 107-122): the body is
\* assigned first, the completion test reads the task after the assignment
UpdatedTask(doc, body, now) ==
    LET assigned == AssignBody(doc, body)
    IN  IF Field(body, "status", "") = "completed" /\ assigned.status # "completed"
        THEN [assigned EXCEPT
                !.completedAt = now,
                !.productivityScore =
                    IF assigned.actualDuration # 0 /\ assigned.estimatedDuration # 0
                    THEN TimeEfficiencyScore(assigned.estimatedDuration,
                                             assigned.actualDuration)
                    ELSE @]
        ELSE assigned

----------------------------------------------------------------------------
(* The Productivity documents *)

DefaultFocusTime == 0
DefaultBreaks == 0

\* new Productivity({ userId, date: today, ...all zero }) of GET /current; also
\* the schema defaults of a document inserted by the upsert
ZeroSnapshot(id, user, day) ==
    [ id |-> id,
      userId |-> user,
      date |-> day,
      tasksCompleted |-> 0,
      tasksPlanned |-> 0,
      totalWorkTime |-> 0,
      productivityScore |-> 0,
      focusTime |-> DefaultFocusTime,
      breaks |-> DefaultBreaks,
      categoryBreakdown |-> ZeroBreakdown ]

\* ApplyMetrics adding the day's minutes to the stored total
ApplyMetricsAccumulating(s, user, day, m) ==
    [s EXCEPT !.userId = user,
              !.date = day,
              !.tasksPlanned = m.tasksPlanned,
              !.tasksCompleted = m.tasksCompleted,
              !.totalWorkTime = @ + m.totalWorkTime,
              !.productivityScore = m.productivityScore,
              !.categoryBreakdown = m.categoryBreakdown]

\* ApplyMetrics as a replacement of the whole document: the fields that the
\* update document does not name fall back to their defaults
ApplyMetricsReplacing(s, user, day, m) ==
    [s EXCEPT !.userId = user,
              !.date = day,
              !.tasksPlanned = m.tasksPlanned,
              !.tasksCompleted = m.tasksCompleted,
              !.totalWorkTime = m.totalWorkTime,
              !.productivityScore = m.productivityScore,
              !.categoryBreakdown = m.categoryBreakdown,
              !.focusTime = DefaultFocusTime,
              !.breaks = DefaultBreaks]

\* the update document of findOneAndUpdate (tasks.js 200-208); Mongoose sends
\* it as a $set, so the fields it does not name keep their stored values
ApplyMetrics(s, user, day, m) ==
    [s EXCEPT !.userId = user,
              !.date = day,
              !.tasksPlanned = m.tasksPlanned,
              !.tasksCompleted = m.tasksCompleted,
              !.totalWorkTime = m.totalWorkTime,
              !.productivityScore = m.productivityScore,
              !.categoryBreakdown = m.categoryBreakdown]

\* { userId, date: { $gte: dayStart, $lte: dayEnd } }: the first document of
\* the collection that matches, 0 when none does
FirstMatch(coll, user, day) ==
    LET hits == { i \in 1..Len(coll) : coll[i].userId = user /\ coll[i].date = day }
    IN  IF hits = {} THEN 0 ELSE CHOOSE i \in hits : \A j \in hits : i <= j

\* productivityScore: { min: 0, max: 100 }, checked by save()
ValidSnapshot(s) == ScoreMin <= s.productivityScore /\ s.productivityScore <= ScoreMax

----------------------------------------------------------------------------
(* Requests *)

NoDoc == [none |-> TRUE]

Request(rid, op, user, pc, body, doc, day, metrics, mark) ==
    [ rid |-> rid, op |-> op, user |-> user, pc |-> pc, body |-> body,
      doc |-> doc, day |-> day, metrics |-> metrics, mark |-> mark ]

CanStart == nreq < MaxReqs /\ Cardinality(inflight) < MaxConc

\* history: a store write by one request ends the undisturbed run of the others
\* (mark "none"); a recomputation that read the tasks right after a
\* recomputation of the same (user, day), with no store write in between, is
\* marked "second"
RanLast(user, day) == lastRun # <<>> /\ lastRun[1] = user /\ lastRun[2] = day
RunOf(r) ==
    IF r.mark = "none" THEN <<>>
    ELSE <<r.user, r.day, IF r.mark = "second" THEN 2 ELSE 1>>
Disturbed(S) == { [r EXCEPT !.mark = "none"] : r \in S }

\* the bodies the clients send
PostBodies ==
    { [scheduledDate |-> d] : d \in Days } \cup
    { [scheduledDate |-> d, status |-> "completed", category |-> "work",
       actualDuration |-> 30] : d \in Days } \cup
    { [scheduledDate |-> 1, category |-> "health", actualDuration |-> 120] }

PutBodies ==
    { [status |-> "completed"],
      [status |-> "completed", actualDuration |-> 30],
      [status |-> "pending"] } \cup
    { [scheduledDate |-> d] : d \in Days }

SnapshotBodies ==
    { [focusTime |-> 25, breaks |-> 2],
      [tasksCompleted |-> 5],
      [productivityScore |-> 150] } \cup
    { [date |-> d] : d \in Days }

\* new Date(): the requests received so far serve as the clock
Now == nreq

----------------------------------------------------------------------------
(* POST /api/tasks (tasks.js 64-91) *)

\* task.save(), then the handler awaits updateProductivityMetrics
PostTask(user, body) ==
    /\ CanStart
    /\ LET task == NewTask(nreq + 1, user, body)
       IN  /\ tasks' = Append(tasks, task)
           /\ inflight' = Disturbed(inflight) \cup
                 { Request(nreq + 1, "post", user, "read", body, NoDoc,
                           task.scheduledDate, NoDoc, "none") }
    /\ nreq' = nreq + 1
    /\ lastRun' = <<>>
    /\ UNCHANGED <<snapshots, calcVars, aggVars>>

----------------------------------------------------------------------------
(* PUT /api/tasks/:id (tasks.js 96-136) *)

\* Task.findOne({ _id, userId }): 404 when there is none
PutTaskFind(user, id, body) ==
    /\ CanStart
    /\ LET i == IndexOfId(tasks, id)
       IN  IF i # 0 /\ tasks[i].userId = user
           THEN inflight' = inflight \cup
                   { Request(nreq + 1, "put", user, "save", body, tasks[i],
                             tasks[i].scheduledDate, NoDoc, "none") }
           ELSE inflight' = inflight
    /\ nreq' = nreq + 1
    /\ UNCHANGED <<tasks, snapshots, lastRun, calcVars, aggVars>>

\* the assignments, the completion branch and task.save(); a document that was
\* deleted in the meantime makes save() throw (500, no recomputation)
PutTaskSave(r) ==
    /\ r.op = "put" /\ r.pc = "save"
    /\ LET i == IndexOfId(tasks, r.doc.id)
           final == UpdatedTask(r.doc, r.body, Now)
       IN  IF i = 0
           THEN /\ inflight' = inflight \ {r}
                /\ UNCHANGED <<tasks, lastRun>>
           ELSE LET written == WriteModified(tasks[i], r.doc, final)
                IN  /\ tasks' = [tasks EXCEPT ![i] = written]
                    /\ IF written # tasks[i]
                       THEN /\ inflight' = Disturbed(inflight \ {r}) \cup
                                  { [r EXCEPT !.pc = "read", !.day = final.scheduledDate] }
                            /\ lastRun' = <<>>
                       ELSE /\ inflight' = (inflight \ {r}) \cup
                                  { [r EXCEPT !.pc = "read", !.day = final.scheduledDate] }
                            /\ UNCHANGED lastRun
    /\ UNCHANGED <<snapshots, nreq, calcVars, aggVars>>

----------------------------------------------------------------------------
(* DELETE /api/tasks/:id (tasks.js 141-162) *)

\* Task.findOneAndDelete({ _id, userId }): 404 when there is none
DeleteTask(user, id) ==
    /\ CanStart
    /\ LET i == IndexOfId(tasks, id)
       IN  IF i # 0 /\ tasks[i].userId = user
           THEN /\ tasks' = RemoveAt(tasks, i)
                /\ inflight' = Disturbed(inflight) \cup
                      { Request(nreq + 1, "delete", user, "read", NoDoc, tasks[i],
                                tasks[i].scheduledDate, NoDoc, "none") }
                /\ lastRun' = <<>>
           ELSE UNCHANGED <<tasks, inflight, lastRun>>
    /\ nreq' = nreq + 1
    /\ UNCHANGED <<snapshots, calcVars, aggVars>>

----------------------------------------------------------------------------
(* updateProductivityMetrics(userId, date) (tasks.js 165-211) *)

\* Task.find of the day and the computation of the metrics
RecomputeRead(r) ==
    /\ r.pc = "read"
    /\ inflight' = (inflight \ {r}) \cup
          { [r EXCEPT !.pc = "upsert",
                      !.metrics = ComputeMetrics(TasksOn(tasks, r.user, r.day)),
                      !.mark = IF RanLast(r.user, r.day) THEN "second" ELSE "first"] }
    /\ UNCHANGED <<tasks, snapshots, nreq, lastRun, calcVars, aggVars>>

\* RecomputeUpsert that clears the snapshot of a day left without tasks
\* instead of rewriting it
RecomputeUpsertDropEmpty(r) ==
    /\ r.pc = "upsert"
    /\ LET i == FirstMatch(snapshots, r.user, r.day)
       IN  IF i # 0
           THEN /\ snapshots' = IF r.metrics.tasksPlanned = 0
                                 THEN RemoveAt(snapshots, i)
                                 ELSE [snapshots EXCEPT
                                          ![i] = ApplyMetrics(@, r.user, r.day, r.metrics)]
                /\ inflight' = Disturbed(inflight \ {r})
                /\ lastRun' = RunOf(r)
           ELSE /\ inflight' = (inflight \ {r}) \cup { [r EXCEPT !.pc = "insert"] }
                /\ UNCHANGED <<snapshots, lastRun>>
    /\ UNCHANGED <<tasks, nreq, calcVars, aggVars>>

\* Productivity.findOneAndUpdate(filter, update, { upsert: true }): a matching
\* document is updated in place; when none matches the store goes on to
\* insert one.  The collection has no unique index on (userId, date), so the
\* store does not make the match and the insert one atomic operation.
RecomputeUpsert(r) ==
    /\ r.pc = "upsert"
    /\ LET i == FirstMatch(snapshots, r.user, r.day)
       IN  IF i # 0
           THEN /\ snapshots' = [snapshots EXCEPT
                                    ![i] = ApplyMetrics(@, r.user, r.day, r.metrics)]
                /\ inflight' = Disturbed(inflight \ {r})
                /\ lastRun' = RunOf(r)
           ELSE /\ inflight' = (inflight \ {r}) \cup { [r EXCEPT !.pc = "insert"] }
                /\ UNCHANGED <<snapshots, lastRun>>
    /\ UNCHANGED <<tasks, nreq, calcVars, aggVars>>

\* the insert of the upsert
RecomputeInsert(r) ==
    /\ r.pc = "insert"
    /\ snapshots' = Append(snapshots,
                           ApplyMetrics(ZeroSnapshot(r.rid, r.user, r.day),
                                        r.user, r.day, r.metrics))
    /\ inflight' = Disturbed(inflight \ {r})
    /\ lastRun' = RunOf(r)
    /\ UNCHANGED <<tasks, nreq, calcVars, aggVars>>

----------------------------------------------------------------------------
(* GET /api/productivity/current (productivity.js 40-77) *)

\* Productivity.findOne({ userId, date: today }); `today` is the clock's day
CurrentFind(user, today) ==
    /\ CanStart
    /\ IF FirstMatch(snapshots, user, today) # 0
       THEN inflight' = inflight
       ELSE inflight' = inflight \cup
               { Request(nreq + 1, "current", user, "create", NoDoc, NoDoc,
                         today, NoDoc, "none") }
    /\ nreq' = nreq + 1
    /\ UNCHANGED <<tasks, snapshots, lastRun, calcVars, aggVars>>

\* CurrentCreate without productivity.save(): the default entry is only returned
CurrentCreateUnsaved(r) ==
    /\ r.op = "current" /\ r.pc = "create"
    /\ inflight' = inflight \ {r}
    /\ UNCHANGED <<tasks, snapshots, nreq, lastRun, calcVars, aggVars>>

\* productivity.save() of the default entry
CurrentCreate(r) ==
    /\ r.op = "current" /\ r.pc = "create"
    /\ snapshots' = Append(snapshots, ZeroSnapshot(r.rid, r.user, r.day))
    /\ inflight' = Disturbed(inflight \ {r})
    /\ lastRun' = <<>>
    /\ UNCHANGED <<tasks, nreq, calcVars, aggVars>>

----------------------------------------------------------------------------
(* PUT /api/productivity/:id (productivity.js 135-158) *)

\* Productivity.findOne({ _id, userId }): 404 when there is none
PutSnapshotFind(user, id, body) ==
    /\ CanStart
    /\ LET i == IndexOfId(snapshots, id)
       IN  IF i # 0 /\ snapshots[i].userId = user
           THEN inflight' = inflight \cup
                   { Request(nreq + 1, "edit", user, "save", body, snapshots[i],
                             snapshots[i].date, NoDoc, "none") }
           ELSE inflight' = inflight
    /\ nreq' = nreq + 1
    /\ UNCHANGED <<tasks, snapshots, lastRun, calcVars, aggVars>>

\* the assignments and productivity.save(); a validation error ends the
\* request with nothing written
PutSnapshotSave(r) ==
    /\ r.op = "edit" /\ r.pc = "save"
    /\ LET i == IndexOfId(snapshots, r.doc.id)
           final == AssignBody(r.doc, r.body)
       IN  IF ValidSnapshot(final)
           THEN /\ snapshots' = [snapshots EXCEPT
                                    ![i] = WriteModified(@, r.doc, final)]
                /\ inflight' = Disturbed(inflight \ {r})
                /\ lastRun' = <<>>
           ELSE /\ inflight' = inflight \ {r}
                /\ UNCHANGED <<snapshots, lastRun>>
    /\ UNCHANGED <<tasks, nreq, calcVars, aggVars>>

----------------------------------------------------------------------------

Init ==
    /\ tasks = <<>>
    /\ snapshots = <<>>
    /\ inflight = {}
    /\ nreq = 0
    /\ lastRun = <<>>
    /\ calcTasks = <<>>
    /\ calcOut = <<>>
    /\ productivity = <<>>
    /\ response = <<>>

\* the first store access of a request
Starts ==
    \/ \E u \in Users, b \in PostBodies : PostTask(u, b)
    \/ \E u \in Users, id \in 1..nreq, b \in PutBodies : PutTaskFind(u, id, b)
    \/ \E u \in Users, id \in 1..nreq : DeleteTask(u, id)
    \/ \E u \in Users, d \in Days : CurrentFind(u, d)
    \/ \E u \in Users, id \in 1..nreq, b \in SnapshotBodies : PutSnapshotFind(u, id, b)

\* a suspended request resumes
Steps ==
    \/ \E r \in inflight : PutTaskSave(r)
    \/ \E r \in inflight : RecomputeRead(r)
    \/ \E r \in inflight : RecomputeUpsert(r)
    \/ \E r \in inflight : RecomputeInsert(r)
    \/ \E r \in inflight : CurrentCreate(r)
    \/ \E r \in inflight : PutSnapshotSave(r)

Next == Starts \/ Steps

\* requests served concurrently
Spec == Init /\ [][Next]_vars

\* requests served one after the other: a request is received only when no
\* other is in flight
SeqStarts ==
    \/ \E u \in Users, b \in PostBodies : inflight = {} /\ PostTask(u, b)
    \/ \E u \in Users, id \in 1..nreq, b \in PutBodies :
          inflight = {} /\ PutTaskFind(u, id, b)
    \/ \E u \in Users, id \in 1..nreq : inflight = {} /\ DeleteTask(u, id)
    \/ \E u \in Users, d \in Days : inflight = {} /\ CurrentFind(u, d)
    \/ \E u \in Users, id \in 1..nreq, b \in SnapshotBodies :
          inflight = {} /\ PutSnapshotFind(u, id, b)

SeqNext == SeqStarts \/ Steps

SeqSpec == Init /\ [][SeqNext]_vars

\* requests served one after the other, among them requests whose body names
\* an owner
OwnerBodies == { [userId |-> v] : v \in Users }

OwnerPostBodies == { [scheduledDate |-> d, userId |-> v] : d \in Days, v \in Users }

OwnerStarts ==
    \/ \E u \in Users, b \in OwnerPostBodies : inflight = {} /\ PostTask(u, b)
    \/ \E u \in Users, id \in 1..nreq, b \in OwnerBodies :
          inflight = {} /\ PutTaskFind(u, id, b)
    \/ \E u \in Users, id \in 1..nreq, b \in OwnerBodies :
          inflight = {} /\ PutSnapshotFind(u, id, b)

OwnerNext == SeqStarts \/ OwnerStarts \/ Steps

OwnerSpec == Init /\ [][OwnerNext]_vars

\* the task a request works on
TaskOf(r) == IF r.op = "post" THEN r.rid ELSE r.doc.id

\* concurrent task create / update / delete requests, each on a task that no
\* request in flight works on, none changing scheduledDate
StatusBodies == { b \in PutBodies : "scheduledDate" \notin DOMAIN b }

TaskStarts ==
    \/ \E u \in Users, b \in PostBodies : PostTask(u, b)
    \/ \E u \in Users, id \in 1..nreq, b \in StatusBodies :
          (\A r \in inflight : TaskOf(r) # id) /\ PutTaskFind(u, id, b)
    \/ \E u \in Users, id \in 1..nreq :
          (\A r \in inflight : TaskOf(r) # id) /\ DeleteTask(u, id)

TaskSteps ==
    \/ \E r \in inflight : PutTaskSave(r)
    \/ \E r \in inflight : RecomputeRead(r)
    \/ \E r \in inflight : RecomputeUpsert(r)
    \/ \E r \in inflight : RecomputeInsert(r)

TaskNext == TaskStarts \/ TaskSteps

TaskSpec == Init /\ [][TaskNext]_vars

\* task create / update / delete requests served one after the other, none
\* changing scheduledDate
SeqTaskStarts ==
    \/ \E u \in Users, b \in PostBodies : inflight = {} /\ PostTask(u, b)
    \/ \E u \in Users, id \in 1..nreq, b \in StatusBodies :
          inflight = {} /\ PutTaskFind(u, id, b)
    \/ \E u \in Users, id \in 1..nreq : inflight = {} /\ DeleteTask(u, id)

SeqTaskNext == SeqTaskStarts \/ TaskSteps

SeqTaskSpec == Init /\ [][SeqTaskNext]_vars

----------------------------------------------------------------------------
(* The metrics computation on its own: a task collection is built up from   *)
(* a few kinds of task and the computation of updateProductivityMetrics is *)
(* applied to the tasks of "u1" on one of the days.                         *)

CalcUser == "u1"

TaskKinds ==
    { [scheduledDate |-> 1, status |-> "completed", category |-> "work", actualDuration |-> 30],
      [scheduledDate |-> 1, status |-> "completed", category |-> "health", actualDuration |-> 45],
      [scheduledDate |-> 1, status |-> "pending", category |-> "personal", actualDuration |-> 20],
      [scheduledDate |-> 2, status |-> "completed", category |-> "work", actualDuration |-> 30] }

CalcAdd ==
    /\ Len(calcTasks) < MaxLen
    /\ \E k \in TaskKinds :
          calcTasks' = Append(calcTasks, NewTask(Len(calcTasks) + 1, CalcUser, k))
    /\ calcOut' = <<>>
    /\ UNCHANGED <<mainVars, aggVars>>

CalcRun ==
    /\ calcOut = <<>>
    /\ \E d \in Days :
          calcOut' = <<d, ComputeMetrics(TasksOn(calcTasks, CalcUser, d))>>
    /\ UNCHANGED <<mainVars, calcTasks, aggVars>>

CalcNext == CalcAdd \/ CalcRun

CalcSpec == Init /\ [][CalcNext]_vars

----------------------------------------------------------------------------
(* The range aggregations on their own: GET /api/productivity/stats,
   GET /api/reports/summary and GET /api/analytics/dashboard compute their
   figures from the list of snapshots their query returned.  JavaScript
   numbers are doubles: a quotient is kept as the pair of its operands, and a
   quotient with divisor 0 is what JavaScript gives as NaN or Infinity. *)

Quotient(n, d) == [num |-> n, den |-> d]
\* the literal 0 of the guarded expressions
Zero == Quotient(0, 1)
\* (n / d) * 100
Percent(n, d) == Quotient(n * 100, d)

\* productivity.reduce((sum, p) => sum + p[key], 0)
RECURSIVE SumField(_, _)
SumField(ps, key) ==
    IF ps = <<>> THEN 0 ELSE ps[1][key] + SumField(Tail(ps), key)

\* the average without its length test
AverageUnguarded(ps, key) == Quotient(SumField(ps, key), Len(ps))

\* productivity.length > 0 ? productivity.reduce(...) / productivity.length : 0
Average(ps, key) ==
    IF Len(ps) > 0 THEN Quotient(SumField(ps, key), Len(ps)) ELSE Zero

\* the stats object of GET /api/productivity/stats (productivity.js 92-116)
Stats(ps) ==
    [totalTasksCompleted |-> SumField(ps, "tasksCompleted"),
     totalTasksPlanned |-> SumField(ps, "tasksPlanned"),
     totalWorkTime |-> SumField(ps, "totalWorkTime"),
     averageProductivityScore |-> Average(ps, "productivityScore"),
     averageTasksPerDay |-> Average(ps, "tasksCompleted")]

\* the summary object of GET /api/reports/summary (part_001 188-201)
ReportSummary(ps) ==
    [totalTasksPlanned |-> SumField(ps, "tasksPlanned"),
     totalTasksCompleted |-> SumField(ps, "tasksCompleted"),
     completionRate |->
         IF SumField(ps, "tasksPlanned") > 0
         THEN Percent(SumField(ps, "tasksCompleted"), SumField(ps, "tasksPlanned"))
         ELSE Zero,
     totalWorkTime |-> SumField(ps, "totalWorkTime"),
     averageProductivityScore |-> Average(ps, "productivityScore")]

\* one entry of dailyProductivity (part_001 261-270)
DailyProductivity(p) ==
    [date |-> p.date,
     tasksCompleted |-> p.tasksCompleted,
     tasksPlanned |-> p.tasksPlanned,
     completionRate |->
         IF p.tasksPlanned > 0 THEN Percent(p.tasksCompleted, p.tasksPlanned) ELSE Zero,
     productivityScore |-> p.productivityScore,
     totalWorkTime |-> p.totalWorkTime,
     focusTime |-> p.focusTime,
     breaks |-> p.breaks]

\* the callback of the bestDay reduce taking the later of two equal scores
LaterBest(best, p) ==
    IF p.productivityScore >= best.productivityScore THEN p ELSE best

\* (best, p) => p.productivityScore > best.productivityScore ? p : best
Best(best, p) ==
    IF p.productivityScore > best.productivityScore THEN p ELSE best

\* productivity.reduce(callback, productivity[0]) from element i on
RECURSIVE ReduceBest(_, _, _)
ReduceBest(ps, i, best) ==
    IF i > Len(ps) THEN best ELSE ReduceBest(ps, i + 1, Best(best, ps[i]))

BestDay(ps) == IF Len(ps) > 0 THEN ReduceBest(ps, 1, ps[1]) ELSE NoDoc

\* dailyProductivity, timeAnalysis and summary of GET /api/analytics/dashboard
Dashboard(ps) ==
    [dailyProductivity |-> [i \in 1..Len(ps) |-> DailyProductivity(ps[i])],
     timeAnalysis |->
         [totalWorkTime |-> SumField(ps, "totalWorkTime"),
          averageWorkTimePerDay |-> Average(ps, "totalWorkTime"),
          totalFocusTime |-> SumField(ps, "focusTime"),
          averageFocusTimePerDay |-> Average(ps, "focusTime")],
     summary |->
         [totalDays |-> Len(ps),
          totalTasksCompleted |-> SumField(ps, "tasksCompleted"),
          totalTasksPlanned |-> SumField(ps, "tasksPlanned"),
          overallProductivityScore |-> Average(ps, "productivityScore"),
          bestDay |-> BestDay(ps)]]

\* the snapshots of the range: recomputed days, a day without tasks, and a
\* day whose tasksCompleted was edited while it had no planned task
SnapshotKinds ==
    { [tasksPlanned |-> 5, tasksCompleted |-> 2, totalWorkTime |-> 60,
       productivityScore |-> 40, focusTime |-> 25],
      [tasksPlanned |-> 10, tasksCompleted |-> 9, totalWorkTime |-> 120,
       productivityScore |-> 90, focusTime |-> 0],
      [tasksPlanned |-> 5, tasksCompleted |-> 1, totalWorkTime |-> 30,
       productivityScore |-> 20, focusTime |-> 0],
      [tasksPlanned |-> 0, tasksCompleted |-> 0, totalWorkTime |-> 0,
       productivityScore |-> 0, focusTime |-> 0],
      [tasksPlanned |-> 0, tasksCompleted |-> 5, totalWorkTime |-> 0,
       productivityScore |-> 0, focusTime |-> 0] }

\* the snapshot of kind k on day `day`
SnapshotOf(day, k) ==
    [ZeroSnapshot(day, CalcUser, day) EXCEPT
        !.tasksPlanned = k.tasksPlanned,
        !.tasksCompleted = k.tasksCompleted,
        !.totalWorkTime = k.totalWorkTime,
        !.productivityScore = k.productivityScore,
        !.focusTime = k.focusTime]

\* the range holds one more day
AggAdd ==
    /\ Len(productivity) < MaxDays
    /\ \E k \in SnapshotKinds :
          productivity' = Append(productivity, SnapshotOf(Len(productivity) + 1, k))
    /\ response' = <<>>
    /\ UNCHANGED <<mainVars, calcVars>>

AggStats ==
    /\ response = <<>>
    /\ response' = <<"stats", Stats(productivity)>>
    /\ UNCHANGED <<mainVars, calcVars, productivity>>

AggSummary ==
    /\ response = <<>>
    /\ response' = <<"summary", ReportSummary(productivity)>>
    /\ UNCHANGED <<mainVars, calcVars, productivity>>

AggDashboard ==
    /\ response = <<>>
    /\ response' = <<"dashboard", Dashboard(productivity)>>
    /\ UNCHANGED <<mainVars, calcVars, productivity>>

AggNext == AggAdd \/ AggStats \/ AggSummary \/ AggDashboard

AggSpec == Init /\ [][AggNext]_vars

----------------------------------------------------------------------------
(* Claims about the metrics computation (checked under CalcSpec) *)

\* the positions of the tasks of the computed (user, day) in the collection
DayTasks ==
    { i \in 1..Len(calcTasks) :
        calcTasks[i].userId = CalcUser /\ calcTasks[i].scheduledDate = calcOut[1] }

DayCompleted == { i \in DayTasks : calcTasks[i].status = "completed" }

RECURSIVE MinutesOf(_)
MinutesOf(S) ==
    IF S = {} THEN 0
    ELSE LET i == CHOOSE x \in S : TRUE
         IN  calcTasks[i].actualDuration + MinutesOf(S \ {i})

\* the integer nearest to c/p*100, the upper one when two are equally near
HalfUp(c, p) ==
    CHOOSE n \in 0..100 : 2 * p * n - p <= 200 * c /\ 200 * c < 2 * p * n + p

CategorySum(b) == b["work"] + b["personal"] + b["health"] + b["learning"] + b["other"]

ExampleDay ==
    /\ Cardinality(DayTasks) = 3
    /\ \E i, j, k \in DayTasks :
          /\ calcTasks[i].status = "completed" /\ calcTasks[i].category = "work"
          /\ calcTasks[i].actualDuration = 30
          /\ calcTasks[j].status = "completed" /\ calcTasks[j].category = "health"
          /\ calcTasks[j].actualDuration = 45
          /\ calcTasks[k].status = "pending"

\* C5: the snapshot fields computed by updateProductivityMetrics for the tasks
\* of a (user, day) are: tasksPlanned = their number, tasksCompleted = the
\* number of completed ones, totalWorkTime = the minutes of the completed ones,
\* categoryBreakdown[c] = the minutes of the completed ones of category c, and
\* productivityScore = tasksCompleted / tasksPlanned * 100 rounded half-up (0
\* for an empty day); the example day gives 3, 2, 75, 67 and work 30, health 45.
C5_MetricsOfDay ==
    calcOut # <<>> =>
        LET m == calcOut[2]
            p == Cardinality(DayTasks)
            c == Cardinality(DayCompleted)
        IN  /\ m.tasksPlanned = p
            /\ m.tasksCompleted = c
            /\ m.totalWorkTime = MinutesOf(DayCompleted)
            /\ \A cat \in Categories :
                  m.categoryBreakdown[cat] =
                      MinutesOf({ i \in DayCompleted : calcTasks[i].category = cat })
            /\ m.productivityScore = (IF p > 0 THEN HalfUp(c, p) ELSE 0)
            /\ (p = 8 /\ c = 1 => m.productivityScore = 13)
            /\ (ExampleDay =>
                  /\ m.tasksPlanned = 3 /\ m.tasksCompleted = 2
                  /\ m.totalWorkTime = 75 /\ m.productivityScore = 67
                  /\ m.categoryBreakdown =
                        [work |-> 30, health |-> 45, personal |-> 0,
                         learning |-> 0, other |-> 0])

\* the example day has been computed
C5_Witness == calcOut # <<>> /\ ExampleDay /\ calcOut[2].productivityScore = 67

\* C9: in a snapshot computed by updateProductivityMetrics the minutes of the
\* five categories add up to at most totalWorkTime, and to exactly
\* totalWorkTime when every completed task of the day has one of the five
\* categories.
C9_BreakdownWithinWorkTime ==
    calcOut # <<>> =>
        LET m == calcOut[2]
        IN  /\ CategorySum(m.categoryBreakdown) <= m.totalWorkTime
            /\ ((\A i \in DayCompleted : calcTasks[i].category \in Categories)
                  => CategorySum(m.categoryBreakdown) = m.totalWorkTime)

\* a day with completed work in two categories and an unfinished task that
\* has minutes of its own has been computed
C9_Witness ==
    /\ calcOut # <<>>
    /\ calcOut[2].categoryBreakdown["work"] > 0
    /\ calcOut[2].categoryBreakdown["health"] > 0
    /\ \E i \in DayTasks : calcTasks[i].status # "completed" /\ calcTasks[i].actualDuration > 0

----------------------------------------------------------------------------
(* Claims about the requests *)

\* request r ends with this step
Completes(r) == \A q \in inflight' : q.rid # r.rid

Derived(s) ==
    [ tasksPlanned |-> s.tasksPlanned,
      tasksCompleted |-> s.tasksCompleted,
      totalWorkTime |-> s.totalWorkTime,
      productivityScore |-> s.productivityScore,
      categoryBreakdown |-> s.categoryBreakdown ]

\* C1: completedAt is set exactly when the status moved into "completed": a
\* step that moves a stored task from another status to "completed" leaves it
\* with a completedAt, no other step changes a task's completedAt, and a task
\* is created without one.
C1_CompletedAtStampedOnce ==
    [][ /\ \A i \in 1..Len(tasks), j \in 1..Len(tasks') :
              tasks[i].id = tasks'[j].id =>
                  LET becomes == tasks[i].status # "completed"
                                   /\ tasks'[j].status = "completed"
                  IN  /\ becomes => tasks'[j].completedAt # NoDate
                      /\ ~becomes => tasks'[j].completedAt = tasks[i].completedAt
        /\ \A j \in 1..Len(tasks') :
              (\A i \in 1..Len(tasks) : tasks[i].id # tasks'[j].id)
                  => tasks'[j].completedAt = NoDate
      ]_vars

\* C2: no two snapshots of the collection belong to the same user and day.
C2_OneSnapshotPerUserDay ==
    \A i, j \in 1..Len(snapshots) :
        (snapshots[i].userId = snapshots[j].userId /\ snapshots[i].date = snapshots[j].date)
            => i = j

\* C3: when a task update that moved the task from day D1 to another day D2
\* ends, every snapshot of the requesting user for D1 and for D2 counts the
\* tasks (and the completed minutes) that are scheduled on its day.
C3_BothDaysRecomputed ==
    [][ \A r \in inflight :
            (r.op = "put" /\ r.doc.scheduledDate # r.day /\ Completes(r)) =>
                \A d \in {r.doc.scheduledDate, r.day} :
                    \A i \in 1..Len(snapshots') :
                        (snapshots'[i].userId = r.user /\ snapshots'[i].date = d) =>
                            LET m == ComputeMetrics(TasksOn(tasks', r.user, d))
                            IN  /\ snapshots'[i].tasksPlanned = m.tasksPlanned
                                /\ snapshots'[i].totalWorkTime = m.totalWorkTime
      ]_vars

\* C4: once all the concurrent task requests have ended, every day that has
\* tasks has a snapshot, and every snapshot carries the metrics of the tasks
\* now stored for its (user, day).
C4_SnapshotReflectsTasks ==
    inflight = {} =>
        /\ \A k \in 1..Len(tasks) :
              FirstMatch(snapshots, tasks[k].userId, tasks[k].scheduledDate) # 0
        /\ \A i \in 1..Len(snapshots) :
              Derived(snapshots[i]) =
                  ComputeMetrics(TasksOn(tasks, snapshots[i].userId, snapshots[i].date))

\* estimatedDuration / actualDuration * 100, kept within 0..100
ClampedEfficiency(estimated, actual) ==
    LET q == CHOOSE v \in 0..(estimated * 100) : v * actual = estimated * 100
    IN  IF q > 100 THEN 100 ELSE q

\* C6: a step that moves a stored task from another status to "completed",
\* the task having actualDuration > 0, leaves the task with productivityScore =
\* clamp(estimatedDuration / actualDuration * 100, 0, 100): 60 / 30 gives 100,
\* 60 / 120 gives 50.
C6_ScoreOnCompletion ==
    [][ \A i \in 1..Len(tasks), j \in 1..Len(tasks') :
            ( /\ tasks[i].id = tasks'[j].id
              /\ tasks[i].status # "completed"
              /\ tasks'[j].status = "completed"
              /\ tasks'[j].actualDuration > 0 ) =>
                /\ tasks'[j].productivityScore =
                      ClampedEfficiency(tasks'[j].estimatedDuration,
                                        tasks'[j].actualDuration)
                /\ (tasks'[j].estimatedDuration = 60 /\ tasks'[j].actualDuration = 30
                       => tasks'[j].productivityScore = 100)
                /\ (tasks'[j].estimatedDuration = 60 /\ tasks'[j].actualDuration = 120
                       => tasks'[j].productivityScore = 50)
      ]_vars

C8_SnapshotRanges ==
    \A i \in 1..Len(snapshots) :
        /\ snapshots[i].tasksCompleted <= snapshots[i].tasksPlanned
        /\ 0 <= snapshots[i].productivityScore
        /\ snapshots[i].productivityScore <= 100

\* C11: a recomputation that finds a snapshot of its (user, day) writes the
\* derived fields (and the date) of that one snapshot and leaves its focusTime,
\* its breaks and every other snapshot as stored.
C11_RecomputeKeepsManualFields ==
    [][ \A r \in inflight :
            (r.pc = "upsert" /\ Completes(r)) =>
                LET i == FirstMatch(snapshots, r.user, r.day)
                IN  /\ i # 0
                    /\ Len(snapshots') = Len(snapshots)
                    /\ \A k \in 1..Len(snapshots) : k # i => snapshots'[k] = snapshots[k]
                    /\ snapshots'[i].id = snapshots[i].id
                    /\ snapshots'[i].focusTime = snapshots[i].focusTime
                    /\ snapshots'[i].breaks = snapshots[i].breaks
                    /\ Derived(snapshots'[i]) = r.metrics
                    /\ snapshots'[i].date = r.day
      ]_vars

\* the last store write was a recomputation, and the snapshot it rewrote
\* carries an edited focusTime and breaks
C11_Witness ==
    /\ lastRun # <<>>
    /\ FirstMatch(snapshots, lastRun[1], lastRun[2]) # 0
    /\ LET s == snapshots[FirstMatch(snapshots, lastRun[1], lastRun[2])]
       IN  s.focusTime = 25 /\ s.breaks = 2 /\ s.tasksPlanned > 0

\* the derived fields of a day without tasks
ZeroMetrics ==
    [tasksPlanned |-> 0, tasksCompleted |-> 0, totalWorkTime |-> 0,
     productivityScore |-> 0,
     categoryBreakdown |-> [c \in Categories |-> 0]]

\* C12: no step removes a snapshot, and when a DELETE /api/tasks/:id that runs
\* on its own finishes with no task left for its (user, day), a snapshot of
\* that (user, day) exists whose derived fields are all zero.
C12_SnapshotKeptWithZeros ==
    [][ /\ \A i \in 1..Len(snapshots) :
              \E j \in 1..Len(snapshots') : snapshots'[j].id = snapshots[i].id
        /\ \A r \in inflight :
              (r.op = "delete" /\ Completes(r)
                 /\ \A k \in 1..Len(tasks') :
                       ~(tasks'[k].userId = r.user /\ tasks'[k].scheduledDate = r.day))
              => \E j \in 1..Len(snapshots') :
                    /\ snapshots'[j].userId = r.user
                    /\ snapshots'[j].date = r.day
                    /\ Derived(snapshots'[j]) = ZeroMetrics
      ]_vars

\* a task was created and then deleted: no task is stored, the last store
\* write was the recomputation of the delete, and the snapshot it left is zero
C12_Witness ==
    /\ tasks = <<>>
    /\ inflight = {}
    /\ lastRun # <<>>
    /\ nreq >= 2
    /\ FirstMatch(snapshots, lastRun[1], lastRun[2]) # 0
    /\ Derived(snapshots[FirstMatch(snapshots, lastRun[1], lastRun[2])]) = ZeroMetrics

\* a figure that is a number: not NaN, not Infinity
IsNumber(q) == q.den # 0

\* C13: no aggregation evaluates a division by zero: every average and every
\* completion rate answered is a number; a completion rate over
\* tasksPlanned = 0 is 0; and over zero snapshots every total is 0, every
\* average and completion rate is 0 and bestDay is null.
C13_AggregationGuardsDivision ==
    response # <<>> =>
        LET b == response[2]
            empty == productivity = <<>>
        IN  CASE response[1] = "stats" ->
                   /\ IsNumber(b.averageProductivityScore)
                   /\ IsNumber(b.averageTasksPerDay)
                   /\ empty => /\ b.totalTasksCompleted = 0
                                /\ b.totalTasksPlanned = 0
                                /\ b.totalWorkTime = 0
                                /\ b.averageProductivityScore = Zero
                                /\ b.averageTasksPerDay = Zero
              [] response[1] = "summary" ->
                   /\ IsNumber(b.completionRate)
                   /\ IsNumber(b.averageProductivityScore)
                   /\ b.totalTasksPlanned = 0 => b.completionRate = Zero
                   /\ empty => /\ b.totalTasksPlanned = 0
                                /\ b.totalTasksCompleted = 0
                                /\ b.totalWorkTime = 0
                                /\ b.completionRate = Zero
                                /\ b.averageProductivityScore = Zero
              [] response[1] = "dashboard" ->
                   /\ \A i \in 1..Len(productivity) :
                         /\ IsNumber(b.dailyProductivity[i].completionRate)
                         /\ productivity[i].tasksPlanned = 0
                               => b.dailyProductivity[i].completionRate = Zero
                   /\ IsNumber(b.timeAnalysis.averageWorkTimePerDay)
                   /\ IsNumber(b.timeAnalysis.averageFocusTimePerDay)
                   /\ IsNumber(b.summary.overallProductivityScore)
                   /\ empty => /\ b.timeAnalysis.totalWorkTime = 0
                                /\ b.timeAnalysis.averageWorkTimePerDay = Zero
                                /\ b.timeAnalysis.totalFocusTime = 0
                                /\ b.timeAnalysis.averageFocusTimePerDay = Zero
                                /\ b.summary.totalDays = 0
                                /\ b.summary.totalTasksCompleted = 0
                                /\ b.summary.totalTasksPlanned = 0
                                /\ b.summary.overallProductivityScore = Zero
                                /\ b.summary.bestDay = NoDoc

\* the report summary was computed over zero snapshots
C13_Witness ==
    /\ productivity = <<>>
    /\ response # <<>>
    /\ response[1] = "summary"
    /\ response[2].completionRate = Zero
    /\ response[2].averageProductivityScore = Zero

\* C14: the dashboard's bestDay is null for an empty sequence of snapshots;
\* for a non-empty one it is a snapshot of the sequence whose productivityScore
\* no other snapshot exceeds and that every earlier snapshot is strictly below.
C14_BestDayEarliestMaximum ==
    (response # <<>> /\ response[1] = "dashboard") =>
        LET best == response[2].summary.bestDay
        IN  IF productivity = <<>>
            THEN best = NoDoc
            ELSE \E i \in 1..Len(productivity) :
                    /\ best = productivity[i]
                    /\ \A j \in 1..Len(productivity) :
                          /\ productivity[j].productivityScore <= productivity[i].productivityScore
                          /\ j < i => productivity[j].productivityScore
                                          < productivity[i].productivityScore

\* the scores 40, 90, 90, 20 in date order: bestDay is the second day
C14_Witness ==
    /\ Len(productivity) = 4
    /\ [i \in 1..4 |-> productivity[i].productivityScore] = <<40, 90, 90, 20>>
    /\ response # <<>>
    /\ response[1] = "dashboard"
    /\ response[2].summary.bestDay.date = 2

\* the stored tasks of a (user, day), and the figures of that day
OnDay(coll, user, day) ==
    { k \in 1..Len(coll) : coll[k].userId = user /\ coll[k].scheduledDate = day }

CompletedOnDay(coll, user, day) ==
    { k \in OnDay(coll, user, day) : coll[k].status = "completed" }

RECURSIVE Minutes(_, _)
Minutes(coll, S) ==
    IF S = {} THEN 0
    ELSE LET k == CHOOSE x \in S : TRUE
         IN  coll[k].actualDuration + Minutes(coll, S \ {k})

FiguresOf(coll, user, day) ==
    LET planned == Cardinality(OnDay(coll, user, day))
        done == CompletedOnDay(coll, user, day)
    IN  [ tasksPlanned |-> planned,
          tasksCompleted |-> Cardinality(done),
          totalWorkTime |-> Minutes(coll, done),
          productivityScore |->
              IF planned = 0 THEN 0 ELSE HalfUp(Cardinality(done), planned),
          categoryBreakdown |->
              [c \in Categories |->
                  Minutes(coll, { k \in done : coll[k].category = c })] ]

\* C15: with task create, update and delete requests served one after the
\* other and no update changing scheduledDate or owner, when a request
\* finishes a snapshot of its task's (user, day) exists, and the derived
\* fields of every snapshot of that (user, day) equal the figures of the
\* tasks then stored for that (user, day).
C15_SequentialSnapshotMatches ==
    [][ \A r \in inflight :
            (r.pc \in {"upsert", "insert"} /\ Completes(r)) =>
                /\ FirstMatch(snapshots', r.user, r.day) # 0
                /\ \A j \in 1..Len(snapshots') :
                      (snapshots'[j].userId = r.user /\ snapshots'[j].date = r.day)
                      => Derived(snapshots'[j]) = FiguresOf(tasks', r.user, r.day)
      ]_vars

\* a task created pending in category health was then completed with 30
\* minutes, and the snapshot of its day shows it
C15_Witness ==
    /\ inflight = {}
    /\ lastRun # <<>>
    /\ \E k \in 1..Len(tasks) :
          /\ tasks[k].category = "health"
          /\ tasks[k].status = "completed"
          /\ tasks[k].actualDuration = 30
          /\ \E j \in 1..Len(snapshots) :
                /\ snapshots[j].userId = tasks[k].userId
                /\ snapshots[j].date = tasks[k].scheduledDate
                /\ snapshots[j].categoryBreakdown["health"] = 30

\* the users whose request takes the step: a request in flight that moves on
\* or ends, or a request that is received
Acting ==
    { r.user : r \in { q \in inflight :
                          \A p \in inflight' : p.rid = q.rid => p.pc # q.pc } }
    \cup
    { r.user : r \in { q \in inflight' : \A p \in inflight : p.rid # q.rid } }

\* the documents of a collection that the step removes or changes, as they
\* were before it, and those it adds or changes, as they are after it
Touched(before, after) ==
    { before[i] : i \in { k \in 1..Len(before) :
                             \A j \in 1..Len(after) : after[j] # before[k] } }
    \cup
    { after[j] : j \in { k \in 1..Len(after) :
                            \A i \in 1..Len(before) : before[i] # after[k] } }

\* C16: no step changes the owner of a stored task or snapshot, and every
\* task or snapshot that a step creates, changes or deletes is owned, before
\* and after the step, by the user whose request takes the step.
C16_UserIsolation ==
    [][ /\ \A i \in 1..Len(tasks), j \in 1..Len(tasks') :
              tasks'[j].id = tasks[i].id => tasks'[j].userId = tasks[i].userId
        /\ \A i \in 1..Len(snapshots), j \in 1..Len(snapshots') :
              snapshots'[j].id = snapshots[i].id
                  => snapshots'[j].userId = snapshots[i].userId
        /\ \A d \in Touched(tasks, tasks') \cup Touched(snapshots, snapshots') :
              d.userId \in Acting
      ]_vars

\* C10 as stated: the current-day read that finds no snapshot leaves the
\* snapshot collection unchanged.
C10_ReadDoesNotPersist ==
    [][ \A r \in inflight :
            (r.op = "current" /\ Completes(r)) => snapshots' = snapshots
      ]_vars

\* C10 as amended: the current-day read that finds no snapshot adds exactly
\* one snapshot to the collection, the zero-valued snapshot of (user, today),
\* and leaves the others as they were.
C10_ReadPersistsZeroSnapshot ==
    [][ \A r \in inflight :
            (r.op = "current" /\ Completes(r)) =>
                /\ Len(snapshots') = Len(snapshots) + 1
                /\ SubSeq(snapshots', 1, Len(snapshots)) = snapshots
                /\ LET s == snapshots'[Len(snapshots')]
                   IN  /\ s.userId = r.user /\ s.date = r.day
                       /\ s.tasksPlanned = 0 /\ s.tasksCompleted = 0
                       /\ s.totalWorkTime = 0 /\ s.productivityScore = 0
                       /\ s.focusTime = 0 /\ s.breaks = 0
                       /\ \A c \in Categories : s.categoryBreakdown[c] = 0
      ]_vars

\* the only request so far was a current-day read, and it has ended
C10_Witness ==
    /\ nreq = 1 /\ inflight = {} /\ tasks = <<>>
    /\ Len(snapshots) = 1
    /\ snapshots[1].tasksPlanned = 0

====
